---------------------------- MODULE Spec2Model ----------------------------
(***************************************************************************)
(* Limit order book (order_book.h / order_book.cpp): two price-ordered     *)
(* side indices (bids_, asks_), one FIFO list of order nodes per price     *)
(* level, and the id lookup (order_lookup_) that holds, per order id, the  *)
(* side, the price and the list iterator of the order's node.              *)
(*                                                                         *)
(* A std::map is modelled as the sequence of its (first, second) entries   *)
(* in comparator order; a std::list as the sequence of its nodes; a list   *)
(* iterator as the identity of the node it designates (a small natural,    *)
(* the node's "address").  Prices are totally ordered values (doubles      *)
(* other than NaN compare the same way).  Quantities are unsigned integers *)
(* of QtyBits bits, so that sums wrap as uint64_t sums do.                 *)
(***************************************************************************)
EXTENDS Integers, Sequences, FiniteSets, TLC

\* ------------------------------------------------------------------ bounds
MaxId == 2
MaxDepth == 2
MaxNodes == 2
QtyBits == 2

\* uint64_t, scaled to QtyBits bits
QtyMod == 2 ^ QtyBits

\* Order::order_id
Ids == 1..MaxId

\* Order::price
Prices == {1, 2}

\* Order::quantity: zero, one and the largest value of the type
Quantities == {0, 1, QtyMod - 1}

\* Order::timestamp_ns: every id is submitted with its own timestamp, and
\* timestamps decrease as ids increase, so that arrival order and timestamp
\* order can disagree as well as agree
TimestampOf(order_id) == MaxId + 1 - order_id

\* size_t depth
Depths == 0..MaxDepth

\* ------------------------------------------------------------- data types
\* struct Order
Order == {o \in [order_id : Ids, is_buy : BOOLEAN, price : Prices,
                 quantity : Quantities, timestamp_ns : 1..MaxId] :
             o.timestamp_ns = TimestampOf(o.order_id)}

\* struct PriceLevel (the snapshot's element)
PriceLevel(p, q) == [price |-> p, total_quantity |-> q]

\* struct OrderNode: the order and the iterator to the node itself
OrderNode(o, it) == [order |-> o, list_iter |-> it]

\* struct PriceLevelData as value-initialised by std::map::operator[]
PriceLevelData == [price |-> 0, orders |-> <<>>, total_quantity |-> 0]

\* struct OrderLocation
OrderLocation(b, p, it) == [is_buy |-> b, price |-> p, list_iter |-> it]

\* variant of BidsCompare that orders bids as std::less would
BidsCompareAscending(a, b) == a < b

\* std::greater<double>, the comparator of bids_
BidsCompare(a, b) == a > b

\* std::less<double>, the comparator of asks_
AsksCompare(a, b) == a < b

\* the comparator of the side index of a side
KeyCompare(is_buy, a, b) ==
    IF is_buy THEN BidsCompare(a, b) ELSE AsksCompare(a, b)

\* uint64_t arithmetic
AddU(a, b) == (a + b) % QtyMod
SubU(a, b) == (a + QtyMod - (b % QtyMod)) % QtyMod

\* --------------------------------------------------------------- std::map
\* map.find(key): the index of the entry, 0 for end()
MapFind(m, key) ==
    IF \E i \in 1..Len(m) : m[i].first = key
    THEN CHOOSE i \in 1..Len(m) : m[i].first = key
    ELSE 0

\* map[key]: the map after operator[], which inserts a value-initialised
\* entry at the key's place in comparator order when the key is absent
MapSubscript(m, key, is_buy) ==
    IF MapFind(m, key) # 0 THEN m
    ELSE LET n == Cardinality({i \in 1..Len(m) :
                                 KeyCompare(is_buy, m[i].first, key)})
         IN  SubSeq(m, 1, n)
               \o <<[first |-> key, second |-> PriceLevelData]>>
               \o SubSeq(m, n + 1, Len(m))

\* variant of MapErase that erases begin() instead of the entry the
\* iterator designates
MapEraseBegin(m, i) == Tail(m)

\* variant of MapErase that leaves the entry in the map
MapEraseNothing(m, i) == m

\* map.erase(iterator)
MapErase(m, i) == SubSeq(m, 1, i - 1) \o SubSeq(m, i + 1, Len(m))

\* -------------------------------------------------------------- std::list
\* position of the node an iterator designates in a list, 0 when the node
\* is not a node of this list
ListPos(l, it) ==
    IF \E i \in 1..Len(l) : l[i].list_iter = it
    THEN CHOOSE i \in 1..Len(l) : l[i].list_iter = it
    ELSE 0

\* variant of ListErase that moves the last node into the place of the
\* erased one
ListEraseSwapLast(l, it) ==
    LET i == ListPos(l, it)
    IN  IF i = Len(l)
        THEN SubSeq(l, 1, i - 1)
        ELSE SubSeq(l, 1, i - 1) \o <<l[Len(l)]>> \o SubSeq(l, i + 1, Len(l) - 1)

\* list.erase(iterator)
ListErase(l, it) ==
    LET i == ListPos(l, it)
    IN  SubSeq(l, 1, i - 1) \o SubSeq(l, i + 1, Len(l))

\* the nodes of every list of a side index
NodesOf(m) ==
    UNION {{m[i].second.orders[j] : j \in 1..Len(m[i].second.orders)}
           : i \in 1..Len(m)}

\* ---------------------------------------------------------- the OrderBook
\* The members of an OrderBook b are b.bids_, b.asks_ and b.order_lookup_.
\* b.ub records that a call dereferenced or erased through an iterator whose
\* node is no longer in the list it is used on (undefined behaviour).

\* every node currently linked in a list of the book
LiveNodes(b) == NodesOf(b.bids_) \cup NodesOf(b.asks_)

\* TRUE when the iterator designates a node that is linked in some list
Dereferenceable(b, it) == \E n \in LiveNodes(b) : n.list_iter = it

\* *it for a list iterator
Deref(b, it) == CHOOSE n \in LiveNodes(b) : n.list_iter = it

\* the node push_back allocates: the lowest address no linked node occupies
NewNode(b) ==
    LET used == {n.list_iter : n \in LiveNodes(b)}
    IN  CHOOSE a \in 1..(Cardinality(used) + 1) :
            a \notin used /\ \A c \in 1..(a - 1) : c \in used

\* variant of LookupPut that assigns only to a key already present
LookupPutExistingOnly(f, id, location) ==
    IF id \in DOMAIN f THEN [f EXCEPT ![id] = location] ELSE f

\* variant of LookupPut that keeps the entry of a key already present, as
\* unordered_map::insert does
LookupPutKeepsExisting(f, id, location) ==
    [k \in (DOMAIN f) \cup {id} |-> IF k \in DOMAIN f THEN f[k] ELSE location]

\* order_lookup_[id] = location
LookupPut(f, id, location) ==
    [k \in (DOMAIN f) \cup {id} |-> IF k = id THEN location ELSE f[k]]

\* variant of LookupErase that leaves the entry in the lookup
LookupEraseNothing(f, id) == f

\* order_lookup_.erase(lookup_it)
LookupErase(f, id) == [k \in (DOMAIN f) \ {id} |-> f[k]]

\* variant of AddToSide that keeps each queue sorted by timestamp_ns: the
\* node goes in front of the first node with a larger timestamp
AddToSideByTimestamp(m, order, it) ==
    LET m1 == MapSubscript(m, order.price, order.is_buy)
        i == MapFind(m1, order.price)
        level == m1[i].second
        n == Cardinality({j \in 1..Len(level.orders) :
                 level.orders[j].order.timestamp_ns <= order.timestamp_ns})
    IN  [m1 EXCEPT ![i].second =
            [price |-> order.price,
             orders |-> SubSeq(level.orders, 1, n)
                          \o <<OrderNode(order, it)>>
                          \o SubSeq(level.orders, n + 1, Len(level.orders)),
             total_quantity |-> AddU(level.total_quantity, order.quantity)]]

\* variant of AddToSide without the total_quantity += of line 54
AddToSideKeepTotal(m, order, it) ==
    LET m1 == MapSubscript(m, order.price, order.is_buy)
        i == MapFind(m1, order.price)
        level == m1[i].second
    IN  [m1 EXCEPT ![i].second =
            [price |-> order.price,
             orders |-> Append(level.orders, OrderNode(order, it)),
             total_quantity |-> level.total_quantity]]

\* add_order, lines 44-54 on the level found or created at lines 34-42:
\* the side index after the order is appended to the level at its price
AddToSide(m, order, it) ==
    LET m1 == MapSubscript(m, order.price, order.is_buy)
        i == MapFind(m1, order.price)
        level == m1[i].second
    IN  [m1 EXCEPT ![i].second =
            [price |-> order.price,
             orders |-> Append(level.orders, OrderNode(order, it)),
             total_quantity |-> AddU(level.total_quantity, order.quantity)]]

\* variant of add_order that executes an incoming order against the other
\* side: when its price crosses the best level of the other side, that
\* level and the lookup entries of its orders are removed
add_order_matching(b, order) ==
    LET it == NewNode(b)
        opposite == IF order.is_buy THEN b.asks_ ELSE b.bids_
        crossed == /\ opposite # <<>>
                   /\ IF order.is_buy
                      THEN order.price >= opposite[1].first
                      ELSE order.price <= opposite[1].first
        remaining == IF crossed THEN MapErase(opposite, 1) ELSE opposite
        matched == {k \in DOMAIN b.order_lookup_ :
                      /\ crossed
                      /\ b.order_lookup_[k].is_buy # order.is_buy
                      /\ b.order_lookup_[k].price = opposite[1].first}
    IN  [b EXCEPT
            !.bids_ = IF order.is_buy
                      THEN AddToSide(@, order, it) ELSE remaining,
            !.asks_ = IF order.is_buy
                      THEN remaining ELSE AddToSide(@, order, it),
            !.order_lookup_ =
                LookupPut([k \in (DOMAIN @) \ matched |-> @[k]],
                          order.order_id,
                          OrderLocation(order.is_buy, order.price, it))]

\* void OrderBook::add_order(const Order& order)
add_order(b, order) ==
    LET it == NewNode(b)
    IN  [b EXCEPT
            !.bids_ = IF order.is_buy
                      THEN AddToSide(@, order, it) ELSE @,
            !.asks_ = IF order.is_buy
                      THEN @ ELSE AddToSide(@, order, it),
            !.order_lookup_ =
                LookupPut(@, order.order_id,
                          OrderLocation(order.is_buy, order.price, it))]

\* variant of EraseFromSide without the total_quantity -= of line 86 / 105
EraseFromSideKeepTotal(m, price_it, it, quantity) ==
    LET level == m[price_it].second
        orders == ListErase(level.orders, it)
        m1 == [m EXCEPT ![price_it].second = [level EXCEPT !.orders = orders]]
    IN  IF orders = <<>> THEN MapErase(m1, price_it) ELSE m1

\* variant of EraseFromSide without the erase of the emptied level (lines
\* 92-94 / 111-113)
EraseFromSideKeepsLevel(m, price_it, it, quantity) ==
    LET level == m[price_it].second
    IN  [m EXCEPT ![price_it].second =
            [level EXCEPT
                !.total_quantity = SubU(@, quantity),
                !.orders = ListErase(level.orders, it)]]

\* variant of EraseFromSide that erases the level whether or not the erase
\* of the node emptied it
EraseFromSideErasesLevel(m, price_it, it, quantity) == MapErase(m, price_it)

\* cancel_order, lines 83-94 (bids) and 102-113 (asks): the side index after
\* the node is erased from the level at index price_it
EraseFromSide(m, price_it, it, quantity) ==
    LET level == m[price_it].second
        orders == ListErase(level.orders, it)
        m1 == [m EXCEPT ![price_it].second =
                  [level EXCEPT
                      !.total_quantity = SubU(@, quantity),
                      !.orders = orders]]
    IN  IF orders = <<>> THEN MapErase(m1, price_it) ELSE m1

\* variant of NotFound that writes to order_lookup_ before returning false
NotFoundInsertsEntry(b, order_id) ==
    [book |-> [b EXCEPT !.order_lookup_ =
                   LookupPut(@, order_id, OrderLocation(FALSE, 0, 0))],
     ret |-> FALSE]

\* the early return of cancel_order (lines 67-69) and of amend_order (lines
\* 125-127) when order_lookup_.find(order_id) is end()
NotFound(b, order_id) == [book |-> b, ret |-> FALSE]

\* bool OrderBook::cancel_order(uint64_t order_id): the book after the call
\* and the value returned
cancel_order(b, order_id) ==
    IF order_id \notin DOMAIN b.order_lookup_
    THEN NotFound(b, order_id)
    ELSE
      LET location == b.order_lookup_[order_id]
          m == IF location.is_buy THEN b.bids_ ELSE b.asks_
          price_it == MapFind(m, location.price)
      IN  IF ~Dereferenceable(b, location.list_iter)
          THEN [book |-> [b EXCEPT !.ub = TRUE], ret |-> FALSE]
          ELSE IF price_it = 0
          THEN [book |-> b, ret |-> FALSE]
          ELSE IF ListPos(m[price_it].second.orders, location.list_iter) = 0
          THEN [book |-> [b EXCEPT !.ub = TRUE], ret |-> FALSE]
          ELSE
            LET order == Deref(b, location.list_iter).order
                m1 == EraseFromSide(m, price_it, location.list_iter,
                                    order.quantity)
            IN  [book |-> [b EXCEPT
                     !.bids_ = IF location.is_buy THEN m1 ELSE @,
                     !.asks_ = IF location.is_buy THEN @ ELSE m1,
                     !.order_lookup_ = LookupErase(@, order_id)],
                 ret |-> TRUE]

\* variant of AmendInSide without the "- order.quantity" of line 155 / 168
AmendInSideAddsOnly(m, price_it, it, new_quantity) ==
    LET level == m[price_it].second
        j == ListPos(level.orders, it)
    IN  [m EXCEPT ![price_it].second =
            [level EXCEPT
                !.total_quantity = AddU(@, new_quantity),
                !.orders[j].order.quantity = new_quantity]]

\* variant of AmendInSide that erases the node, and the level it empties,
\* when the new quantity is 0
AmendInSideErasesZero(m, price_it, it, new_quantity) ==
    LET level == m[price_it].second
        j == ListPos(level.orders, it)
        order == level.orders[j].order
    IN  IF new_quantity = 0
        THEN EraseFromSide(m, price_it, it, order.quantity)
        ELSE [m EXCEPT ![price_it].second =
                 [level EXCEPT
                     !.total_quantity =
                         AddU(SubU(@, order.quantity), new_quantity),
                     !.orders[j].order.quantity = new_quantity]]

\* variant of AmendInSide that moves the amended node to the back of its
\* queue
AmendInSideRequeues(m, price_it, it, new_quantity) ==
    LET level == m[price_it].second
        j == ListPos(level.orders, it)
        order == level.orders[j].order
    IN  [m EXCEPT ![price_it].second =
            [level EXCEPT
                !.total_quantity =
                    AddU(SubU(@, order.quantity), new_quantity),
                !.orders =
                    Append(ListErase(@, it),
                           OrderNode([order EXCEPT !.quantity = new_quantity],
                                     it))]]

\* amend_order, lines 152-158 (bids) and 165-171 (asks): the side index
\* after the in-place update of the level at index price_it and of the node
AmendInSide(m, price_it, it, new_quantity) ==
    LET level == m[price_it].second
        j == ListPos(level.orders, it)
        order == level.orders[j].order
    IN  [m EXCEPT ![price_it].second =
            [level EXCEPT
                !.total_quantity =
                    AddU(SubU(@, order.quantity), new_quantity),
                !.orders[j].order.quantity = new_quantity]]

\* variant of NewOrder that also flips the side
NewOrderFlipsSide(order, new_price, new_quantity) ==
    [order EXCEPT !.price = new_price, !.quantity = new_quantity,
                  !.is_buy = ~@]

\* variant of NewOrder without the assignment of line 137
NewOrderKeepsQuantity(order, new_price, new_quantity) ==
    [order EXCEPT !.price = new_price]

\* amend_order, lines 135-137: the order a price-changing amend adds
NewOrder(order, new_price, new_quantity) ==
    [order EXCEPT !.price = new_price, !.quantity = new_quantity]

\* bool OrderBook::amend_order(uint64_t order_id, double new_price,
\*                             uint64_t new_quantity)
amend_order(b, order_id, new_price, new_quantity) ==
    IF order_id \notin DOMAIN b.order_lookup_
    THEN NotFound(b, order_id)
    ELSE
      LET location == b.order_lookup_[order_id]
      IN  IF ~Dereferenceable(b, location.list_iter)
          THEN [book |-> [b EXCEPT !.ub = TRUE], ret |-> FALSE]
          ELSE
            LET order == Deref(b, location.list_iter).order
            IN  IF order.price # new_price
                THEN
                  LET new_order == NewOrder(order, new_price, new_quantity)
                  IN  [book |-> add_order(cancel_order(b, order_id).book,
                                          new_order),
                       ret |-> TRUE]
                ELSE
                  LET m == IF location.is_buy THEN b.bids_ ELSE b.asks_
                      price_it == MapFind(m, location.price)
                  IN  IF price_it = 0
                      THEN [book |-> b, ret |-> FALSE]
                      ELSE IF ListPos(m[price_it].second.orders,
                                      location.list_iter) = 0
                      THEN [book |-> [b EXCEPT !.ub = TRUE], ret |-> FALSE]
                      ELSE
                        LET m1 == AmendInSide(m, price_it,
                                              location.list_iter,
                                              new_quantity)
                        IN  [book |-> [b EXCEPT
                                 !.bids_ = IF location.is_buy
                                           THEN m1 ELSE @,
                                 !.asks_ = IF location.is_buy
                                           THEN @ ELSE m1],
                             ret |-> TRUE]

\* variant of CollectLevels whose loop stops at count > depth
RECURSIVE CollectLevelsOneMore(_, _, _, _, _)
CollectLevelsOneMore(m, i, count, depth, out) ==
    IF i > Len(m) \/ count > depth
    THEN out
    ELSE CollectLevelsOneMore(m, i + 1, count + 1, depth,
             Append(out, PriceLevel(m[i].first,
                                    m[i].second.total_quantity)))

\* get_snapshot, the loop of lines 183-193 (bids) and 196-206 (asks) from
\* the entry at index i with `count` levels collected so far in out
RECURSIVE CollectLevels(_, _, _, _, _)
CollectLevels(m, i, count, depth, out) ==
    IF i > Len(m) \/ count >= depth
    THEN out
    ELSE CollectLevels(m, i + 1, count + 1, depth,
             Append(out, PriceLevel(m[i].first,
                                    m[i].second.total_quantity)))

\* variant of VectorClear that keeps the elements
VectorKeep(v) == v

\* std::vector::clear()
VectorClear(v) == SubSeq(v, 1, 0)

\* void OrderBook::get_snapshot(size_t depth, std::vector<PriceLevel>& bids,
\*                              std::vector<PriceLevel>& asks) const:
\* the two output vectors after the call
get_snapshot(b, depth, bids, asks) ==
    [bids |-> CollectLevels(b.bids_, 1, 0, depth, VectorClear(bids)),
     asks |-> CollectLevels(b.asks_, 1, 0, depth, VectorClear(asks))]

\* ------------------------------------------------------------------ state
VARIABLES
    bids_,          \* std::map<double, PriceLevelData, std::greater<double>>
    asks_,          \* std::map<double, PriceLevelData, std::less<double>>
    order_lookup_,  \* std::unordered_map<uint64_t, OrderLocation>
    ub,             \* an invalid iterator has been used
    call,           \* the last public call: its arguments and its results
    threads,        \* per thread, the call it is in and the call's locals
    overlapped      \* a call has started while another was in progress

vars == <<bids_, asks_, order_lookup_, ub, call, threads, overlapped>>

\* the OrderBook object in the current state
book == [bids_ |-> bids_, asks_ |-> asks_,
         order_lookup_ |-> order_lookup_, ub |-> ub]

\* the members of the object become those of b
BookBecomes(b) ==
    /\ bids_' = b.bids_
    /\ asks_' = b.asks_
    /\ order_lookup_' = b.order_lookup_
    /\ ub' = b.ub

\* the record of a call that has returned and whose results the caller has
\* not read yet: the operation, the order id it names, the depth asked of a
\* snapshot, the value returned (TRUE for a void operation) and the output
\* vectors of a snapshot; NoCall between calls
NoCall == [op |-> "none", order_id |-> 0, depth |-> 0, ret |-> TRUE,
           bids |-> <<>>, asks |-> <<>>]

\* contents a caller's output vectors may have before a snapshot
StaleVectors ==
    {[bids |-> <<>>, asks |-> <<PriceLevel(2, 1)>>],
     [bids |-> <<PriceLevel(1, 1), PriceLevel(1, 1)>>, asks |-> <<>>]}

\* the threads of a host that calls the book from more than one thread
Threads == {1, 2}

\* a thread that is in no call of the book: pc is the statement the thread
\* is at; order and order_id are the argument of add_order and of
\* cancel_order; is_buy and price designate the map entry price_level (or
\* price_it) refers to; list_iter is the iterator of the node; total is the
\* value of total_quantity the thread has read; the four flags record that
\* another thread has erased the map entry, the node or the lookup entry the
\* thread refers to, or has inserted into the lookup since lookup_it was
\* obtained
Idle == [pc |-> "idle", order_id |-> 0, quantity |-> 0, timestamp_ns |-> 0,
         is_buy |-> FALSE, price |-> 0, list_iter |-> 0, total |-> 0,
         level_erased |-> FALSE, node_erased |-> FALSE,
         entry_erased |-> FALSE, rehashed |-> FALSE]

\* OrderBook() = default
Init ==
    /\ bids_ = <<>>
    /\ asks_ = <<>>
    /\ order_lookup_ = <<>>
    /\ ub = FALSE
    /\ call = NoCall
    /\ threads = [t \in Threads |-> Idle]
    /\ overlapped = FALSE

\* the call book.add_order(order), made between calls
AddOrderOf(order) ==
    /\ call = NoCall
    /\ \E b \in {add_order(book, order)} : BookBecomes(b)
    /\ call' = [NoCall EXCEPT !.op = "add_order",
                              !.order_id = order.order_id]
    /\ UNCHANGED <<threads, overlapped>>

\* the call book.cancel_order(order_id), made between calls
CancelOrderOf(order_id) ==
    /\ call = NoCall
    /\ \E r \in {cancel_order(book, order_id)} :
          /\ BookBecomes(r.book)
          /\ call' = [NoCall EXCEPT !.op = "cancel_order",
                                    !.order_id = order_id,
                                    !.ret = r.ret]
    /\ UNCHANGED <<threads, overlapped>>

\* the call book.amend_order(order_id, new_price, new_quantity), made
\* between calls
AmendOrderOf(order_id, new_price, new_quantity) ==
    /\ call = NoCall
    /\ \E r \in {amend_order(book, order_id, new_price, new_quantity)} :
          /\ BookBecomes(r.book)
          /\ call' = [NoCall EXCEPT !.op = "amend_order",
                                    !.order_id = order_id,
                                    !.ret = r.ret]
    /\ UNCHANGED <<threads, overlapped>>

\* book.add_order(order) by a caller that keeps order ids unique among live
\* orders, as the interface requires
AddOrder ==
    \E order \in Order :
        /\ order.order_id \notin DOMAIN order_lookup_
        /\ AddOrderOf(order)

\* book.add_order(order) with any order id, live or not
AddOrderAnyId ==
    /\ Cardinality(LiveNodes(book)) < MaxNodes
    /\ \E order \in Order : AddOrderOf(order)

\* book.cancel_order(order_id)
CancelOrder == \E order_id \in Ids : CancelOrderOf(order_id)

\* book.amend_order(order_id, new_price, new_quantity)
AmendOrder ==
    \E order_id \in Ids, new_price \in Prices, new_quantity \in Quantities :
        AmendOrderOf(order_id, new_price, new_quantity)

\* book.get_snapshot(depth, bids, asks) on vectors the caller brings
GetSnapshot ==
    /\ call = NoCall
    /\ \E depth \in Depths, stale \in StaleVectors :
          \E r \in {get_snapshot(book, depth, stale.bids, stale.asks)} :
              /\ UNCHANGED <<bids_, asks_, order_lookup_, ub, threads,
                             overlapped>>
              /\ call' = [NoCall EXCEPT !.op = "get_snapshot",
                                        !.depth = depth,
                                        !.bids = r.bids,
                                        !.asks = r.asks]

\* book.get_snapshot(depth, bids, asks) again, on the vectors the previous
\* snapshot filled (test_snapshot_depth)
GetSnapshotAgain ==
    /\ call.op = "get_snapshot"
    /\ \E depth \in Depths :
          \E r \in {get_snapshot(book, depth, call.bids, call.asks)} :
              /\ UNCHANGED <<bids_, asks_, order_lookup_, ub, threads,
                             overlapped>>
              /\ call' = [NoCall EXCEPT !.op = "get_snapshot",
                                        !.depth = depth,
                                        !.bids = r.bids,
                                        !.asks = r.asks]

\* the caller has read the results of the call and goes on
Return ==
    /\ call # NoCall
    /\ call' = NoCall
    /\ UNCHANGED <<bids_, asks_, order_lookup_, ub, threads, overlapped>>

\* a caller that keeps order ids unique among live orders
Next ==
    \/ AddOrder
    \/ CancelOrder
    \/ AmendOrder
    \/ GetSnapshot
    \/ GetSnapshotAgain
    \/ Return

Spec == Init /\ [][Next]_vars

\* a caller that may add an order under an id that is still live
NextReuse ==
    \/ AddOrderAnyId
    \/ CancelOrder
    \/ AmendOrder
    \/ GetSnapshot
    \/ GetSnapshotAgain
    \/ Return

SpecReuse == Init /\ [][NextReuse]_vars

\* A caller that may add an order under an id that is still live, adds
\* orders of quantity 1, amends to the largest quantity and takes no
\* snapshots.
DuplicateOrder == {o \in Order : o.quantity = 1}

\* book.add_order(order) with any order id, live or not
AddOrderDuplicate ==
    /\ Cardinality(LiveNodes(book)) < MaxNodes
    /\ \E order \in DuplicateOrder : AddOrderOf(order)

\* book.amend_order(order_id, new_price, new_quantity)
AmendOrderDuplicate ==
    \E order_id \in Ids, new_price \in Prices :
        AmendOrderOf(order_id, new_price, QtyMod - 1)

NextDuplicate ==
    \/ AddOrderDuplicate
    \/ CancelOrder
    \/ AmendOrderDuplicate
    \/ Return

SpecDuplicate == Init /\ [][NextDuplicate]_vars

\* A caller that keeps up to MaxId + 1 buy orders live, enough for a queue
\* of three, brings non-zero quantities and takes no snapshots.
QueueIds == 1..(MaxId + 1)

QueueQuantities == Quantities \ {0}

QueueOrder ==
    {o \in [order_id : QueueIds, is_buy : {TRUE}, price : Prices,
            quantity : QueueQuantities, timestamp_ns : 0..MaxId] :
        o.timestamp_ns = TimestampOf(o.order_id)}

\* book.add_order(order) with an id that is not live
AddOrderQueue ==
    \E order \in QueueOrder :
        /\ order.order_id \notin DOMAIN order_lookup_
        /\ AddOrderOf(order)

\* book.cancel_order(order_id)
CancelOrderQueue == \E order_id \in QueueIds : CancelOrderOf(order_id)

\* book.amend_order(order_id, new_price, new_quantity)
AmendOrderQueue ==
    \E order_id \in QueueIds, new_price \in Prices,
       new_quantity \in QueueQuantities :
        AmendOrderOf(order_id, new_price, new_quantity)

NextQueue ==
    \/ AddOrderQueue
    \/ CancelOrderQueue
    \/ AmendOrderQueue
    \/ Return

SpecQueue == Init /\ [][NextQueue]_vars

\* ------------------------------------------------- unsynchronised threads
\* A host that calls add_order and cancel_order from the threads of Threads
\* with no lock.  Each call runs statement by statement, a read and a write
\* of total_quantity being two steps, and the steps of the threads
\* interleave.  A thread that uses a pointer, reference or iterator another
\* thread has invalidated sets ub, after which nothing is modelled.

\* the side index a thread's is_buy selects
Side(is_buy) == IF is_buy THEN bids_ ELSE asks_

\* the side index is_buy selects becomes m
SideBecomes(is_buy, m) ==
    /\ bids_' = IF is_buy THEN m ELSE bids_
    /\ asks_' = IF is_buy THEN asks_ ELSE m

\* the statements at which an add_order or cancel_order holds price_level
HoldsLevel == {"add_push", "add_read", "add_write", "cancel_read",
               "cancel_write", "cancel_erase", "cancel_empty"}

\* the statements at which a cancel_order holds the order reference and
\* still has to erase the node
HoldsNode == {"cancel_level", "cancel_read", "cancel_write", "cancel_erase"}

\* the statements at which a cancel_order holds lookup_it and location
HoldsEntry == {"cancel_level", "cancel_read", "cancel_write", "cancel_erase",
               "cancel_empty", "cancel_lookup"}

\* the orders the threads add: buy orders of quantity 1 at one price, so
\* that every call works on the same level
ConcurrentOrder == {o \in Order : o.is_buy /\ o.quantity = 1 /\ o.price = 1}

\* thread t has used an invalidated pointer, reference or iterator
Undefined(t) ==
    /\ ub' = TRUE
    /\ threads' = [threads EXCEPT ![t] = Idle]
    /\ UNCHANGED <<bids_, asks_, order_lookup_, call, overlapped>>

\* thread t enters book.add_order(order): each thread submits ids of its own
\* (those congruent to its number), and the id is neither live nor the id of
\* a call in progress
ThreadAddStart(t) ==
    /\ ub = FALSE
    /\ threads[t].pc = "idle"
    /\ \E order \in ConcurrentOrder :
          /\ order.order_id % Cardinality(Threads) = t % Cardinality(Threads)
          /\ order.order_id \notin DOMAIN order_lookup_
          /\ \A u \in Threads : threads[u].order_id # order.order_id
          /\ threads' = [threads EXCEPT ![t] =
                [Idle EXCEPT !.pc = "add_level",
                             !.order_id = order.order_id,
                             !.is_buy = order.is_buy,
                             !.price = order.price,
                             !.quantity = order.quantity,
                             !.timestamp_ns = order.timestamp_ns]]
    /\ overlapped' =
          (overlapped \/ \E u \in Threads \ {t} : threads[u].pc # "idle")
    /\ UNCHANGED <<bids_, asks_, order_lookup_, ub, call>>

\* add_order, lines 34-42: price_level = &bids_[order.price]
ThreadAddLevel(t) ==
    /\ ub = FALSE
    /\ threads[t].pc = "add_level"
    /\ LET th == threads[t]
           m1 == MapSubscript(Side(th.is_buy), th.price, th.is_buy)
           i == MapFind(m1, th.price)
       IN  /\ SideBecomes(th.is_buy,
                          [m1 EXCEPT ![i].second.price = th.price])
           /\ threads' = [threads EXCEPT ![t].pc = "add_push"]
    /\ UNCHANGED <<order_lookup_, ub, call, overlapped>>

\* add_order, lines 45-51: price_level->orders.push_back(node)
ThreadAddPush(t) ==
    /\ ub = FALSE
    /\ threads[t].pc = "add_push"
    /\ LET th == threads[t]
           m == Side(th.is_buy)
           i == MapFind(m, th.price)
           it == NewNode(book)
           order == [order_id |-> th.order_id, is_buy |-> th.is_buy,
                     price |-> th.price, quantity |-> th.quantity,
                     timestamp_ns |-> th.timestamp_ns]
       IN  IF th.level_erased
           THEN Undefined(t)
           ELSE /\ SideBecomes(th.is_buy,
                      [m EXCEPT ![i].second.orders =
                          Append(@, OrderNode(order, it))])
                /\ threads' = [threads EXCEPT ![t].pc = "add_read",
                                              ![t].list_iter = it]
                /\ UNCHANGED <<order_lookup_, ub, call, overlapped>>

\* add_order, line 54: the read of price_level->total_quantity
ThreadAddRead(t) ==
    /\ ub = FALSE
    /\ threads[t].pc = "add_read"
    /\ LET th == threads[t]
           m == Side(th.is_buy)
           i == MapFind(m, th.price)
       IN  IF th.level_erased
           THEN Undefined(t)
           ELSE /\ threads' =
                      [threads EXCEPT ![t].pc = "add_write",
                                      ![t].total = m[i].second.total_quantity]
                /\ UNCHANGED <<bids_, asks_, order_lookup_, ub, call,
                               overlapped>>

\* variant of SetTotal that loses the write
SetTotalNothing(m, i, value) == m

\* the write of a level's total_quantity
SetTotal(m, i, value) == [m EXCEPT ![i].second.total_quantity = value]

\* add_order, line 54: the write of price_level->total_quantity
ThreadAddWrite(t) ==
    /\ ub = FALSE
    /\ threads[t].pc = "add_write"
    /\ LET th == threads[t]
           m == Side(th.is_buy)
           i == MapFind(m, th.price)
       IN  IF th.level_erased
           THEN Undefined(t)
           ELSE /\ SideBecomes(th.is_buy,
                      SetTotal(m, i, AddU(th.total, th.quantity)))
                /\ threads' = [threads EXCEPT ![t].pc = "add_lookup"]
                /\ UNCHANGED <<order_lookup_, ub, call, overlapped>>

\* add_order, lines 56-61: order_lookup_[order.order_id] = location; the
\* insertion may rehash, which invalidates the lookup_it of other threads
ThreadAddLookup(t) ==
    /\ ub = FALSE
    /\ threads[t].pc = "add_lookup"
    /\ LET th == threads[t]
       IN  /\ order_lookup_' =
                 LookupPut(order_lookup_, th.order_id,
                           OrderLocation(th.is_buy, th.price, th.list_iter))
           /\ threads' =
                 [u \in Threads |->
                     IF u = t THEN Idle
                     ELSE IF threads[u].pc \in HoldsEntry
                     THEN [threads[u] EXCEPT !.rehashed = TRUE]
                     ELSE threads[u]]
    /\ UNCHANGED <<bids_, asks_, ub, call, overlapped>>

\* thread t enters book.cancel_order(order_id)
ThreadCancelStart(t) ==
    /\ ub = FALSE
    /\ threads[t].pc = "idle"
    /\ \E order_id \in Ids :
          threads' = [threads EXCEPT ![t] =
              [Idle EXCEPT !.pc = "cancel_find", !.order_id = order_id]]
    /\ overlapped' =
          (overlapped \/ \E u \in Threads \ {t} : threads[u].pc # "idle")
    /\ UNCHANGED <<bids_, asks_, order_lookup_, ub, call>>

\* cancel_order, lines 66-74: lookup_it, location and the order reference,
\* which dangles when another thread has erased the node already; return
\* false when the id is not found
ThreadCancelFind(t) ==
    /\ ub = FALSE
    /\ threads[t].pc = "cancel_find"
    /\ LET th == threads[t]
       IN  IF th.order_id \notin DOMAIN order_lookup_
           THEN threads' = [threads EXCEPT ![t] = Idle]
           ELSE threads' =
                  [threads EXCEPT
                      ![t].pc = "cancel_level",
                      ![t].list_iter =
                          order_lookup_[th.order_id].list_iter,
                      ![t].node_erased =
                          ~Dereferenceable(book,
                              order_lookup_[th.order_id].list_iter)]
    /\ UNCHANGED <<bids_, asks_, order_lookup_, ub, call, overlapped>>

\* cancel_order, lines 76-83 and 97-102: price_it = find(location.price);
\* return false when the level is not found
ThreadCancelLevel(t) ==
    /\ ub = FALSE
    /\ threads[t].pc = "cancel_level"
    /\ LET th == threads[t]
       IN  IF th.entry_erased
           THEN Undefined(t)
           ELSE LET location == order_lookup_[th.order_id]
                IN  /\ threads' =
                          IF MapFind(Side(location.is_buy),
                                     location.price) = 0
                          THEN [threads EXCEPT ![t] = Idle]
                          ELSE [threads EXCEPT
                                   ![t].pc = "cancel_read",
                                   ![t].is_buy = location.is_buy,
                                   ![t].price = location.price]
                    /\ UNCHANGED <<bids_, asks_, order_lookup_, ub, call,
                                   overlapped>>

\* cancel_order, lines 86 and 105: the reads of price_level.total_quantity
\* and of order.quantity
ThreadCancelRead(t) ==
    /\ ub = FALSE
    /\ threads[t].pc = "cancel_read"
    /\ LET th == threads[t]
           m == Side(th.is_buy)
           i == MapFind(m, th.price)
       IN  IF th.level_erased \/ th.node_erased
           THEN Undefined(t)
           ELSE /\ threads' =
                      [threads EXCEPT
                          ![t].pc = "cancel_write",
                          ![t].total = m[i].second.total_quantity,
                          ![t].quantity =
                              Deref(book, th.list_iter).order.quantity]
                /\ UNCHANGED <<bids_, asks_, order_lookup_, ub, call,
                               overlapped>>

\* cancel_order, lines 86 and 105: the write of price_level.total_quantity
ThreadCancelWrite(t) ==
    /\ ub = FALSE
    /\ threads[t].pc = "cancel_write"
    /\ LET th == threads[t]
           m == Side(th.is_buy)
           i == MapFind(m, th.price)
       IN  IF th.level_erased
           THEN Undefined(t)
           ELSE /\ SideBecomes(th.is_buy,
                      SetTotal(m, i, SubU(th.total, th.quantity)))
                /\ threads' = [threads EXCEPT ![t].pc = "cancel_erase"]
                /\ UNCHANGED <<order_lookup_, ub, call, overlapped>>

\* cancel_order, lines 89 and 108: orders.erase(location.list_iter), which
\* invalidates the iterators and references other threads hold to the node
ThreadCancelErase(t) ==
    /\ ub = FALSE
    /\ threads[t].pc = "cancel_erase"
    /\ LET th == threads[t]
           m == Side(th.is_buy)
           i == MapFind(m, th.price)
       IN  IF \/ th.level_erased
              \/ th.node_erased
              \/ th.entry_erased
              \/ ListPos(m[i].second.orders, th.list_iter) = 0
           THEN Undefined(t)
           ELSE /\ SideBecomes(th.is_buy,
                      [m EXCEPT ![i].second.orders =
                          ListErase(@, th.list_iter)])
                /\ threads' =
                      [u \in Threads |->
                          IF u = t
                          THEN [th EXCEPT !.pc = "cancel_empty"]
                          ELSE IF /\ threads[u].pc \in HoldsNode
                                  /\ threads[u].list_iter = th.list_iter
                          THEN [threads[u] EXCEPT !.node_erased = TRUE]
                          ELSE threads[u]]
                /\ UNCHANGED <<order_lookup_, ub, call, overlapped>>

\* cancel_order, lines 92-94 and 111-113: erase the level when its list is
\* empty, which invalidates the price_level of other threads
ThreadCancelEmpty(t) ==
    /\ ub = FALSE
    /\ threads[t].pc = "cancel_empty"
    /\ LET th == threads[t]
           m == Side(th.is_buy)
           i == MapFind(m, th.price)
       IN  IF th.level_erased
           THEN Undefined(t)
           ELSE IF m[i].second.orders # <<>>
           THEN /\ threads' = [threads EXCEPT ![t].pc = "cancel_lookup"]
                /\ UNCHANGED <<bids_, asks_, order_lookup_, ub, call,
                               overlapped>>
           ELSE /\ SideBecomes(th.is_buy, MapErase(m, i))
                /\ threads' =
                      [u \in Threads |->
                          IF u = t
                          THEN [th EXCEPT !.pc = "cancel_lookup"]
                          ELSE IF /\ threads[u].pc \in HoldsLevel
                                  /\ threads[u].is_buy = th.is_buy
                                  /\ threads[u].price = th.price
                          THEN [threads[u] EXCEPT !.level_erased = TRUE]
                          ELSE threads[u]]
                /\ UNCHANGED <<order_lookup_, ub, call, overlapped>>

\* cancel_order, line 117: order_lookup_.erase(lookup_it), which invalidates
\* the lookup_it and location of other threads; a lookup_it that a rehash
\* invalidated may still designate the entry, or not
ThreadCancelLookup(t) ==
    /\ ub = FALSE
    /\ threads[t].pc = "cancel_lookup"
    /\ LET th == threads[t]
       IN  \/ /\ th.entry_erased \/ th.rehashed
              /\ Undefined(t)
           \/ /\ ~th.entry_erased
              /\ order_lookup_' = LookupErase(order_lookup_, th.order_id)
              /\ threads' =
                    [u \in Threads |->
                        IF u = t THEN Idle
                        ELSE IF /\ threads[u].pc \in HoldsEntry
                                /\ threads[u].order_id = th.order_id
                        THEN [threads[u] EXCEPT !.entry_erased = TRUE]
                        ELSE threads[u]]
              /\ UNCHANGED <<bids_, asks_, ub, call, overlapped>>

NextConcurrent ==
    \E t \in Threads :
        \/ ThreadAddStart(t)
        \/ ThreadAddLevel(t)
        \/ ThreadAddPush(t)
        \/ ThreadAddRead(t)
        \/ ThreadAddWrite(t)
        \/ ThreadAddLookup(t)
        \/ ThreadCancelStart(t)
        \/ ThreadCancelFind(t)
        \/ ThreadCancelLevel(t)
        \/ ThreadCancelRead(t)
        \/ ThreadCancelWrite(t)
        \/ ThreadCancelErase(t)
        \/ ThreadCancelEmpty(t)
        \/ ThreadCancelLookup(t)

SpecConcurrent == Init /\ [][NextConcurrent]_vars

\* ------------------------------------------------------------- properties
\* the side indices, tagged with the is_buy value of the side
SideIndices == {[is_buy |-> TRUE, m |-> bids_], [is_buy |-> FALSE, m |-> asks_]}

\* the uint64_t sum of the quantity fields of the orders of a list
RECURSIVE SumQuantity(_)
SumQuantity(orders) ==
    IF orders = <<>> THEN 0
    ELSE AddU(Head(orders).order.quantity, SumQuantity(Tail(orders)))

\* the places <<is_buy, level index, queue index>> at which an order with
\* this id sits in a level queue
PlacesOf(order_id) ==
    UNION {UNION {{<<s.is_buy, i, j>> :
                     j \in {k \in 1..Len(s.m[i].second.orders) :
                              s.m[i].second.orders[k].order.order_id
                                  = order_id}}
                  : i \in 1..Len(s.m)}
           : s \in SideIndices}

\* C1. Aggregation invariant: in every reachable state each price level of
\* the bid and of the ask index has total_quantity equal to the (uint64_t)
\* sum of the quantity fields of the orders in its queue.
AggregationInvariant ==
    \A s \in SideIndices : \A i \in 1..Len(s.m) :
        s.m[i].second.total_quantity = SumQuantity(s.m[i].second.orders)

\* a level of two orders with positive quantities, one of them just set by
\* a quantity-only amend
AggregationWitness ==
    /\ call.op = "amend_order"
    /\ call.ret
    /\ \E s \in SideIndices : \E i \in 1..Len(s.m) :
          /\ Len(s.m[i].second.orders) = 2
          /\ s.m[i].second.orders[1].order.order_id = call.order_id
          /\ \A j \in 1..2 : s.m[i].second.orders[j].order.quantity > 0

\* C2. Cross-structure consistency, for callers that never add a live id:
\* the lookup has an entry for an id iff exactly one order with that id sits
\* in exactly one level queue, no id sits anywhere twice, and the entry's
\* (side, price) names the level whose queue holds the node the entry's
\* iterator designates, which is the node of that order.
CrossStructureConsistency ==
    /\ \A id \in Ids :
          /\ (id \in DOMAIN order_lookup_) <=> (Cardinality(PlacesOf(id)) = 1)
          /\ Cardinality(PlacesOf(id)) <= 1
    /\ DOMAIN order_lookup_ \subseteq Ids
    /\ \A id \in DOMAIN order_lookup_ :
          LET location == order_lookup_[id]
              m == IF location.is_buy THEN bids_ ELSE asks_
          IN  \E i \in 1..Len(m) :
                /\ m[i].first = location.price
                /\ \E j \in 1..Len(m[i].second.orders) :
                      /\ m[i].second.orders[j].list_iter = location.list_iter
                      /\ m[i].second.orders[j].order.order_id = id
                      /\ <<location.is_buy, i, j>> \in PlacesOf(id)

\* two live orders in one queue, after one of them was moved there by a
\* price-changing amend
CrossStructureWitness ==
    /\ call.op = "amend_order"
    /\ call.ret
    /\ Cardinality(DOMAIN order_lookup_) = 2
    /\ \E s \in SideIndices : \E i \in 1..Len(s.m) :
          /\ Len(s.m[i].second.orders) = 2
          /\ s.m[i].second.orders[2].order.order_id = call.order_id

\* C3. Level lifecycle: a level exists in a side index iff at least one
\* order rests at that (side, price); every order in a level's queue is an
\* order of that side and price; no level with an empty queue is present and
\* no price has two levels on a side.
LevelLifecycle ==
    \A s \in SideIndices :
        /\ \A p \in Prices :
              (\E i \in 1..Len(s.m) : s.m[i].first = p)
                  <=> (\E n \in NodesOf(s.m) :
                          n.order.price = p /\ n.order.is_buy = s.is_buy)
        /\ \A i \in 1..Len(s.m) :
              /\ s.m[i].second.orders # <<>>
              /\ s.m[i].second.price = s.m[i].first
              /\ \A j \in 1..Len(s.m[i].second.orders) :
                    /\ s.m[i].second.orders[j].order.price = s.m[i].first
                    /\ s.m[i].second.orders[j].order.is_buy = s.is_buy
              /\ \A k \in 1..Len(s.m) : s.m[k].first = s.m[i].first => k = i

\* a level has just been removed by the cancel (or the price-changing
\* amend) that emptied its queue, while another level remains
LevelLifecycleWitness ==
    /\ call.op \in {"cancel_order", "amend_order"}
    /\ call.ret
    /\ Len(bids_) + Len(asks_) = 1
    /\ Cardinality(LiveNodes(book)) = 1
    /\ \E p \in Prices : \A s \in SideIndices : MapFind(s.m, p) = 0

\* C4. No zero-quantity levels: every price level present in a side index
\* has total_quantity > 0.
NoZeroQuantityLevels ==
    \A s \in SideIndices : \A i \in 1..Len(s.m) :
        s.m[i].second.total_quantity > 0

\* the prices at which orders rest on a side
RestingPrices(s) == {n.order.price : n \in NodesOf(s.m)}

\* price a is better than price b on a side: higher for buys, lower for sells
Better(is_buy, a, b) == IF is_buy THEN a > b ELSE a < b

\* the sequence is strictly best-first for a side and starts at the side's
\* best resting price
BestFirst(s, levels) ==
    /\ \A i \in 1..Len(levels) : \A j \in 1..Len(levels) :
          i < j => Better(s.is_buy, levels[i].price, levels[j].price)
    /\ Len(levels) > 0 =>
          /\ levels[1].price \in RestingPrices(s)
          /\ \A p \in RestingPrices(s) : ~Better(s.is_buy, p, levels[1].price)

\* C5. Snapshot ordering: whatever the book and the depth, the bid sequence
\* get_snapshot returns is strictly descending by price, the ask sequence
\* strictly ascending, and the first entry of each is the best price resting
\* on that side.
SnapshotOrdering ==
    call.op = "get_snapshot" =>
        /\ BestFirst([is_buy |-> TRUE, m |-> bids_], call.bids)
        /\ BestFirst([is_buy |-> FALSE, m |-> asks_], call.asks)
        /\ call.depth > 0 => /\ (call.bids = <<>>) = (bids_ = <<>>)
                             /\ (call.asks = <<>>) = (asks_ = <<>>)

\* a snapshot that returned two bid levels
SnapshotOrderingWitness ==
    /\ call.op = "get_snapshot"
    /\ Len(call.bids) = 2
    /\ call.bids[1].price > call.bids[2].price

\* the snapshot of one side at a depth, from the orders resting on the side:
\* its i-th entry is the price with i - 1 better resting prices and the
\* aggregate of the level at that price
ExpectedLevels(s, depth) ==
    LET n == Cardinality(RestingPrices(s))
        PriceAt(i) ==
            CHOOSE p \in RestingPrices(s) :
                Cardinality({q \in RestingPrices(s) :
                               Better(s.is_buy, q, p)}) = i - 1
    IN  [i \in 1..(IF depth < n THEN depth ELSE n) |->
            PriceLevel(PriceAt(i),
                       s.m[MapFind(s.m, PriceAt(i))].second.total_quantity)]

\* C6. Snapshot depth: whatever the depth and the book, get_snapshot returns
\* on each side exactly min(depth, number of price levels of the side)
\* entries, the best-first prefix of the side's levels with their
\* aggregates; depth 0 yields two empty sequences; the result does not
\* depend on what the output vectors held before.
SnapshotDepth ==
    call.op = "get_snapshot" =>
        /\ call.bids = ExpectedLevels([is_buy |-> TRUE, m |-> bids_],
                                      call.depth)
        /\ call.asks = ExpectedLevels([is_buy |-> FALSE, m |-> asks_],
                                      call.depth)
        /\ call.depth = 0 => call.bids = <<>> /\ call.asks = <<>>

\* a snapshot of depth 1 of a book with two bid levels returned one of them
SnapshotDepthWitness ==
    /\ call.op = "get_snapshot"
    /\ call.depth = 1
    /\ Len(bids_) = 2
    /\ Len(call.bids) = 1
    /\ call.asks = <<>>

\* C7. Snapshot is read-only: a get_snapshot call leaves the bid index, the
\* ask index, every level queue and total_quantity and the order lookup
\* unchanged, and a snapshot that directly follows a snapshot of the same
\* depth returns the same two sequences.
SnapshotReadOnly ==
    [][call'.op = "get_snapshot" =>
          /\ bids_' = bids_
          /\ asks_' = asks_
          /\ order_lookup_' = order_lookup_
          /\ (call.op = "get_snapshot" /\ call.depth = call'.depth) =>
                (call'.bids = call.bids /\ call'.asks = call.asks)]_vars

\* a snapshot that returned levels on both sides
SnapshotReadOnlyWitness ==
    /\ call.op = "get_snapshot"
    /\ Len(call.bids) = 1
    /\ Len(call.asks) = 1

\* an order with this id rests in some level queue
Resting(order_id) == PlacesOf(order_id) # {}

\* C8. Failure iff unknown id, for callers that never add a live id:
\* cancel_order(id) and amend_order(id, p, q) return false iff no order with
\* that id rests in the book when they are called, whatever p and q.
FailureIffUnknownId ==
    [][call'.op \in {"cancel_order", "amend_order"} =>
          (call'.ret = FALSE <=> ~Resting(call'.order_id))]_vars

\* an amend of an id that is not live has failed while another order rests
FailureIffUnknownIdWitness ==
    /\ call.op = "amend_order"
    /\ call.ret = FALSE
    /\ ~Resting(call.order_id)
    /\ \E id \in Ids : Resting(id)

\* C9. No mutation on failure: when cancel_order or amend_order returns
\* false, both side indices, every level queue and total_quantity and the
\* order lookup are what they were before the call.
NoMutationOnFailure ==
    [][(call'.op \in {"cancel_order", "amend_order"} /\ call'.ret = FALSE) =>
          /\ bids_' = bids_
          /\ asks_' = asks_
          /\ order_lookup_' = order_lookup_]_vars

\* a cancel has failed on a book that holds an order
NoMutationOnFailureWitness ==
    /\ call.op = "cancel_order"
    /\ call.ret = FALSE
    /\ Cardinality(LiveNodes(book)) = 1
    /\ Cardinality(DOMAIN order_lookup_) = 1

\* a sequence without its j-th element
Without(seq, j) ==
    [k \in 1..(Len(seq) - 1) |-> IF k < j THEN seq[k] ELSE seq[k + 1]]

\* C10. Cancel effect: a successful cancel_order(id) removes exactly the node
\* of that order from its level queue, reduces the level's total_quantity by
\* the order's current quantity, removes the level from its side index iff
\* the queue became empty, removes the id from the order lookup, and leaves
\* every other level as it was.
CancelEffect ==
    [][(call'.op = "cancel_order" /\ call'.ret) =>
          \E place \in PlacesOf(call'.order_id) :
              LET is_buy == place[1]
                  i == place[2]
                  j == place[3]
                  m == IF is_buy THEN bids_ ELSE asks_
                  after == IF is_buy THEN bids_' ELSE asks_'
                  level == m[i].second
              IN  /\ PlacesOf(call'.order_id) = {place}
                  /\ IF is_buy THEN asks_' = asks_ ELSE bids_' = bids_
                  /\ order_lookup_' =
                        [id \in (DOMAIN order_lookup_) \ {call'.order_id}
                            |-> order_lookup_[id]]
                  /\ IF Len(level.orders) = 1
                     THEN after = Without(m, i)
                     ELSE after = [m EXCEPT ![i].second =
                              [price |-> level.price,
                               orders |-> Without(level.orders, j),
                               total_quantity |->
                                   (level.total_quantity + QtyMod
                                      - level.orders[j].order.quantity)
                                   % QtyMod]]]_vars

\* a cancel has removed the order added first; the order added second still
\* rests, with its level
CancelEffectWitness ==
    /\ call.op = "cancel_order"
    /\ call.ret
    /\ Cardinality(LiveNodes(book)) = 1
    /\ \E n \in LiveNodes(book) :
          /\ n.list_iter = 2
          /\ n.order.quantity > 0
          /\ n.order.order_id # call.order_id

\* no iterator whose node left its list is ever used
NoInvalidIterator == ub = FALSE

\* the last element of a non-empty sequence
Last(seq) == seq[Len(seq)]

\* C11. Add effect: add_order(o) with an id that is not live always
\* succeeds and, in the side index o.is_buy selects, creates the level at
\* o.price if it is absent (the other levels stay, in best-first order),
\* appends o as the last element of that level's queue, increases the
\* level's total_quantity by o.quantity and inserts a lookup entry for
\* o.order_id with o's side and price and the iterator of the new node; the
\* other side and the other lookup entries stay as they were.
AddEffect ==
    [][call'.op = "add_order" => \A o \in Order :
          (/\ call'.order_id = o.order_id
           /\ o.order_id \notin DOMAIN order_lookup_
           /\ AddOrderOf(o)) =>
              LET m == IF o.is_buy THEN bids_ ELSE asks_
                  after == IF o.is_buy THEN bids_' ELSE asks_'
              IN  /\ ub' = FALSE
                  /\ IF o.is_buy THEN asks_' = asks_ ELSE bids_' = bids_
                  /\ \A a \in 1..Len(after) : \A c \in 1..Len(after) :
                        a < c => Better(o.is_buy, after[a].first,
                                        after[c].first)
                  /\ \E i \in 1..Len(after) :
                        LET level == after[i].second
                            node == Last(level.orders)
                        IN  /\ after[i].first = o.price
                            /\ level.price = o.price
                            /\ level.orders # <<>>
                            /\ node.order = o
                            /\ \A n \in LiveNodes(book) :
                                  n.list_iter # node.list_iter
                            /\ order_lookup_' =
                                  [id \in (DOMAIN order_lookup_)
                                             \cup {o.order_id} |->
                                      IF id = o.order_id
                                      THEN OrderLocation(o.is_buy, o.price,
                                                         node.list_iter)
                                      ELSE order_lookup_[id]]
                            /\ IF \E k \in 1..Len(m) : m[k].first = o.price
                               THEN after = [m EXCEPT ![i].second =
                                        [price |-> o.price,
                                         orders |->
                                             Append(m[i].second.orders, node),
                                         total_quantity |->
                                             (m[i].second.total_quantity
                                                + o.quantity) % QtyMod]]
                               ELSE /\ level.orders = <<node>>
                                    /\ level.total_quantity = o.quantity
                                    /\ Without(after, i) = m]_vars

\* an add has appended its order behind the order that rested at the price
AddEffectWitness ==
    /\ call.op = "add_order"
    /\ \E s \in SideIndices : \E i \in 1..Len(s.m) :
          /\ Len(s.m[i].second.orders) = 2
          /\ s.m[i].second.orders[2].order.order_id = call.order_id
          /\ s.m[i].second.orders[2].order.quantity > 0
          /\ s.m[i].second.orders[1].order.quantity > 0

\* C12. Quantity-only amend: amend_order(id, p, q) on a live order whose
\* price is p returns true, keeps the order at its position in its level
\* queue, sets its quantity to q, changes the level's total_quantity by
\* q - old quantity (in uint64_t arithmetic), creates and removes no level
\* and changes no lookup entry.
QuantityOnlyAmend ==
    [][call'.op = "amend_order" =>
       \A id \in {call'.order_id}, p \in Prices, q \in Quantities :
          (/\ \E n \in LiveNodes(book) :
                 n.order.order_id = id /\ n.order.price = p
           /\ AmendOrderOf(id, p, q)) =>
              \E place \in PlacesOf(id) :
                  LET is_buy == place[1]
                      i == place[2]
                      j == place[3]
                      m == IF is_buy THEN bids_ ELSE asks_
                      after == IF is_buy THEN bids_' ELSE asks_'
                      level == m[i].second
                      old == level.orders[j]
                  IN  /\ call'.ret
                      /\ ub' = FALSE
                      /\ PlacesOf(id) = {place}
                      /\ IF is_buy THEN asks_' = asks_ ELSE bids_' = bids_
                      /\ order_lookup_' = order_lookup_
                      /\ after = [m EXCEPT ![i].second =
                            [price |-> level.price,
                             orders |->
                                 [level.orders EXCEPT ![j] =
                                     OrderNode([old.order EXCEPT
                                                   !.quantity = q],
                                               old.list_iter)],
                             total_quantity |->
                                 (level.total_quantity + QtyMod
                                    - old.order.quantity + q) % QtyMod]]]_vars

\* an amend has left its order first in a queue of two, with a quantity
\* below that of the order behind it
QuantityOnlyAmendWitness ==
    /\ call.op = "amend_order"
    /\ call.ret
    /\ \E s \in SideIndices : \E i \in 1..Len(s.m) :
          /\ Len(s.m[i].second.orders) = 2
          /\ s.m[i].second.orders[1].order.order_id = call.order_id
          /\ s.m[i].second.orders[1].order.quantity = 1
          /\ s.m[i].second.orders[2].order.quantity = QtyMod - 1

\* C13. Price-changing amend equals cancel then add: for a live order whose
\* price differs from p, amend_order(id, p, q) returns true and leaves the
\* book in the state that cancel_order(id) followed by add_order of the order
\* with the same id, side and timestamp, price p and quantity q leaves it in;
\* the order ends last in the queue at price p of its side, and its old
\* level is gone if no other order rested there.
PriceChangingAmend ==
    [][call'.op = "amend_order" =>
       \A id \in {call'.order_id}, p \in Prices, q \in Quantities :
          \A n \in LiveNodes(book) :
              (/\ n.order.order_id = id
               /\ n.order.price # p
               /\ AmendOrderOf(id, p, q)) =>
                  \E o \in {[order_id |-> id,
                              is_buy |-> n.order.is_buy,
                              price |-> p,
                              quantity |-> q,
                              timestamp_ns |-> n.order.timestamp_ns]} :
                  \E cancelled \in {cancel_order(book, id)} :
                  \E added \in {add_order(cancelled.book, o)} :
                      LET m == IF o.is_buy THEN bids_ ELSE asks_
                          after == IF o.is_buy THEN bids_' ELSE asks_'
                      IN  /\ call'.ret
                          /\ cancelled.ret
                          /\ bids_' = added.bids_
                          /\ asks_' = added.asks_
                          /\ order_lookup_' = added.order_lookup_
                          /\ ub' = FALSE
                          /\ \E i \in 1..Len(after) :
                                /\ after[i].first = p
                                /\ Last(after[i].second.orders).order = o
                          /\ (\A x \in NodesOf(m) :
                                 x.order.price = n.order.price => x = n)
                                => \A i \in 1..Len(after) :
                                      after[i].first # n.order.price]_vars

\* an amend has left its order, the one with the larger timestamp, last in
\* the only queue of the book
PriceChangingAmendWitness ==
    /\ call.op = "amend_order"
    /\ call.ret
    /\ Len(bids_) + Len(asks_) = 1
    /\ \E s \in SideIndices : \E i \in 1..Len(s.m) :
          /\ Len(s.m[i].second.orders) = 2
          /\ s.m[i].second.orders[2].order.order_id = call.order_id
          /\ s.m[i].second.orders[2].order.timestamp_ns
                > s.m[i].second.orders[1].order.timestamp_ns
          /\ s.m[i].second.orders[2].list_iter = 1

\* the order with id x is ahead of the order with id y in the queue of the
\* level at this price of the side index m
Ahead(m, price, x, y) ==
    \E i \in 1..Len(m) :
        /\ m[i].first = price
        /\ \E a \in 1..Len(m[i].second.orders) :
           \E c \in 1..Len(m[i].second.orders) :
              /\ a < c
              /\ m[i].second.orders[a].order.order_id = x
              /\ m[i].second.orders[c].order.order_id = y

\* C14. FIFO invariant: when A rests ahead of B at the same side and price,
\* every add_order, cancel_order or amend_order that neither cancels A or B
\* nor changes the price of A or B leaves A ahead of B in the queue of that
\* level; so do quantity-only amends of A or B and cancels of other orders.
\* (The order a step cancels is the one cancel_order names; the order whose
\* price a step changes is the one amend_order names, when it rests at
\* another price after the step.)
FifoInvariant ==
    [][call'.op \in {"add_order", "cancel_order", "amend_order"} =>
          \E moved \in
              {IF \/ call'.op = "cancel_order"
                  \/ /\ call'.op = "amend_order"
                     /\ \E n \in LiveNodes(book) :
                        \E n2 \in NodesOf(bids_') \cup NodesOf(asks_') :
                           /\ n.order.order_id = call'.order_id
                           /\ n2.order.order_id = call'.order_id
                           /\ n2.order.price # n.order.price
               THEN {call'.order_id}
               ELSE {}} :
              \A is_buy \in BOOLEAN :
                  LET m == IF is_buy THEN bids_ ELSE asks_
                      after == IF is_buy THEN bids_' ELSE asks_'
                  IN  \A i \in 1..Len(m) :
                        \A a \in 1..Len(m[i].second.orders) :
                          \A c \in (a + 1)..Len(m[i].second.orders) :
                            LET x == m[i].second.orders[a].order.order_id
                                y == m[i].second.orders[c].order.order_id
                            IN  (x \notin moved /\ y \notin moved)
                                   => Ahead(after, m[i].first, x, y)]_vars

\* a cancel of another order has left a queue of the two orders that were
\* added second and third
FifoInvariantWitness ==
    /\ call.op = "cancel_order"
    /\ call.ret
    /\ Cardinality(LiveNodes(book)) = 2
    /\ \E s \in SideIndices : \E i \in 1..Len(s.m) :
          /\ Len(s.m[i].second.orders) = 2
          /\ s.m[i].second.orders[1].list_iter = 2
          /\ s.m[i].second.orders[2].list_iter = 3
          /\ \A j \in 1..2 :
                s.m[i].second.orders[j].order.order_id # call.order_id

\* C15. Add/cancel round trip: after add_order(o) with an id that is not
\* live, cancel_order(o.order_id) returns true and leaves a book of which
\* get_snapshot returns, at every depth, what it returned of the book before
\* the add.
AddCancelRoundTrip ==
    [][(call'.op = "add_order"
          /\ call'.order_id \notin DOMAIN order_lookup_) =>
          \E r \in {cancel_order(book', call'.order_id)} :
              /\ r.ret
              /\ \A depth \in Depths :
                    get_snapshot(r.book, depth, <<>>, <<>>)
                        = get_snapshot(book, depth, <<>>, <<>>)]_vars

\* an add has created the second bid level, which the cancel of the added
\* order will remove
AddCancelRoundTripWitness ==
    /\ call.op = "add_order"
    /\ Len(bids_) = 2
    /\ asks_ = <<>>
    /\ Len(bids_[1].second.orders) = 1
    /\ Len(bids_[2].second.orders) = 1
    /\ bids_[2].second.orders[1].order.order_id = call.order_id
    /\ bids_[2].second.total_quantity = QtyMod - 1

\* C16. Side is immutable: a successful amend_order, quantity-only or
\* price-changing, leaves every live order, the amended one included, live
\* and in the side index it was in, with the is_buy of its node and of its
\* lookup entry unchanged; so no sequence of amends moves an order from the
\* side its add put it on.
SideImmutable ==
    [][(call'.op = "amend_order" /\ call'.ret) =>
          \A id \in DOMAIN order_lookup_ :
              /\ PlacesOf(id) # {}
              /\ PlacesOf(id)' # {}
              /\ \A place \in PlacesOf(id) : \A after \in PlacesOf(id)' :
                    /\ after[1] = place[1]
                    /\ order_lookup_[id].is_buy = place[1]
              /\ id \in DOMAIN order_lookup_'
              /\ order_lookup_'[id].is_buy = order_lookup_[id].is_buy
              /\ \A n \in NodesOf(bids_') \cup NodesOf(asks_') :
                    n.order.order_id = id =>
                        n.order.is_buy = order_lookup_[id].is_buy]_vars

\* an amend has left its order alone at the second ask price, behind the
\* level of another sell order
SideImmutableWitness ==
    /\ call.op = "amend_order"
    /\ call.ret
    /\ bids_ = <<>>
    /\ Len(asks_) = 2
    /\ Len(asks_[1].second.orders) = 1
    /\ Len(asks_[2].second.orders) = 1
    /\ asks_[2].second.orders[1].order.order_id = call.order_id
    /\ order_lookup_[call.order_id].is_buy = FALSE

\* C17. Duplicate-id add shadows the earlier order.  On every step, with id
\* the order id the call names:
\*  - an add_order under an id that already rests is carried out: every
\*    resting node stays where it is in its queue, still counted in its
\*    level's total_quantity, one node with that id is added, and the
\*    lookup entry of the id designates the added node;
\*  - a cancel_order or amend_order of an id the lookup holds returns true
\*    and touches only the node the entry designates, the one most recently
\*    added under that id; every other node, those with the same id
\*    included, stays; after the cancel the id has no entry and a further
\*    cancel_order(id) returns false;
\*  - a cancel_order or amend_order of an id the lookup does not hold
\*    returns false, also when an earlier order with that id still rests;
\*  - the lookup entries of the other ids do not change.
DuplicateIdShadows ==
    [][call'.op \in {"add_order", "cancel_order", "amend_order"} =>
         \E id \in {call'.order_id} :
         \E before \in {LiveNodes(book)} :
         \E after \in {NodesOf(bids_') \cup NodesOf(asks_')} :
           /\ (call'.op = "add_order" /\ Resting(id)) =>
                 /\ before \subseteq after
                 /\ \E n \in after \ before :
                       /\ after = before \cup {n}
                       /\ n.order.order_id = id
                       /\ id \in DOMAIN order_lookup_'
                       /\ order_lookup_'[id].list_iter = n.list_iter
                 /\ \A is_buy \in BOOLEAN :
                       LET m == IF is_buy THEN bids_ ELSE asks_
                           m2 == IF is_buy THEN bids_' ELSE asks_'
                       IN  \A i \in 1..Len(m) : \E k \in 1..Len(m2) :
                             /\ m2[k].first = m[i].first
                             /\ Len(m2[k].second.orders)
                                   >= Len(m[i].second.orders)
                             /\ SubSeq(m2[k].second.orders, 1,
                                       Len(m[i].second.orders))
                                   = m[i].second.orders
                 /\ AggregationInvariant'
           /\ (call'.op # "add_order" /\ id \in DOMAIN order_lookup_) =>
                 \E target \in before :
                    /\ target.list_iter = order_lookup_[id].list_iter
                    /\ target.order.order_id = id
                    /\ call'.ret
                    /\ (before \ {target}) \subseteq after
                    /\ call'.op = "cancel_order" =>
                          /\ after = before \ {target}
                          /\ id \notin DOMAIN order_lookup_'
                          /\ cancel_order(book', id).ret = FALSE
                    /\ call'.op = "amend_order" =>
                          \E n \in after :
                             /\ after = (before \ {target}) \cup {n}
                             /\ n.order.order_id = id
                             /\ id \in DOMAIN order_lookup_'
                             /\ order_lookup_'[id].list_iter = n.list_iter
           /\ (call'.op # "add_order" /\ id \notin DOMAIN order_lookup_) =>
                 /\ call'.ret = FALSE
                 /\ after = before
           /\ \A other \in Ids \ {id} :
                 /\ (other \in DOMAIN order_lookup_')
                       = (other \in DOMAIN order_lookup_)
                 /\ other \in DOMAIN order_lookup_ =>
                       order_lookup_'[other] = order_lookup_[other]]_vars

\* after two adds under one id, a cancel of the id has succeeded; the order
\* added first still rests and the id has no lookup entry
DuplicateIdShadowsWitness ==
    /\ call.op = "cancel_order"
    /\ call.ret
    /\ Resting(call.order_id)
    /\ call.order_id \notin DOMAIN order_lookup_

\* C18. Amend to zero quantity does not cancel: amend_order(id, current
\* price, 0) on a live order returns true and leaves the order in its level
\* queue at the same position with quantity 0 and its lookup entry as it
\* was, so that cancel_order(id) still returns true; no level is removed,
\* also when the level's total_quantity becomes 0.
AmendToZero ==
    [][call'.op = "amend_order" =>
         \A id \in {call'.order_id} : \A place \in PlacesOf(id) :
            LET is_buy == place[1]
                i == place[2]
                j == place[3]
                m == IF is_buy THEN bids_ ELSE asks_
                after == IF is_buy THEN bids_' ELSE asks_'
                old == m[i].second.orders[j]
            IN  AmendOrderOf(id, old.order.price, 0) =>
                  /\ call'.ret
                  /\ Len(bids_') = Len(bids_)
                  /\ Len(asks_') = Len(asks_)
                  /\ after[i].first = m[i].first
                  /\ Len(after[i].second.orders) = Len(m[i].second.orders)
                  /\ after[i].second.orders[j] =
                        OrderNode([old.order EXCEPT !.quantity = 0],
                                  old.list_iter)
                  /\ after[i].second.total_quantity =
                        (m[i].second.total_quantity + QtyMod
                           - old.order.quantity) % QtyMod
                  /\ order_lookup_' = order_lookup_
                  /\ id \in DOMAIN order_lookup_'
                  /\ cancel_order(book', id).ret]_vars

\* an amend has left its order, of quantity 0, alone in a level whose
\* total_quantity is 0, with its lookup entry
AmendToZeroWitness ==
    /\ call.op = "amend_order"
    /\ call.ret
    /\ call.order_id \in DOMAIN order_lookup_
    /\ \E s \in SideIndices : \E i \in 1..Len(s.m) :
          /\ Len(s.m[i].second.orders) = 1
          /\ s.m[i].second.orders[1].order.order_id = call.order_id
          /\ s.m[i].second.orders[1].order.quantity = 0
          /\ s.m[i].second.total_quantity = 0

\* C19. Timestamps do not determine priority: the order of a level's queue
\* is the order in which the orders were inserted into the level, by
\* add_order or by a price-changing amend_order, whatever their
\* timestamp_ns.  On every step, when X is ahead of Y in a queue after the
\* step, either X was ahead of Y in the queue of that level before the step
\* or Y is the order the step inserted into the level, which is then the
\* last of the queue.
InsertionOrderPriority ==
    [][call'.op \in {"add_order", "cancel_order", "amend_order"} =>
          \A is_buy \in BOOLEAN :
              LET m == IF is_buy THEN bids_ ELSE asks_
                  after == IF is_buy THEN bids_' ELSE asks_'
              IN  \A i \in 1..Len(after) :
                    \A a \in 1..Len(after[i].second.orders) :
                      \A c \in (a + 1)..Len(after[i].second.orders) :
                        LET x == after[i].second.orders[a].order.order_id
                            y == after[i].second.orders[c].order.order_id
                        IN  \/ Ahead(m, after[i].first, x, y)
                            \/ /\ y = call'.order_id
                               /\ c = Len(after[i].second.orders)
                               /\ \A n \in NodesOf(m) :
                                     n.order.order_id = y =>
                                         n.order.price # after[i].first
                               /\ \/ call'.op = "add_order"
                                  \/ call'.op = "amend_order"
                                       /\ Resting(y)]_vars

\* an add has put its order, the one with the smaller timestamp, behind the
\* order that rested at the price
InsertionOrderPriorityWitness ==
    /\ call.op = "add_order"
    /\ \E s \in SideIndices : \E i \in 1..Len(s.m) :
          /\ Len(s.m[i].second.orders) = 2
          /\ s.m[i].second.orders[2].order.order_id = call.order_id
          /\ s.m[i].second.orders[2].order.timestamp_ns
                < s.m[i].second.orders[1].order.timestamp_ns

\* no add_order or cancel_order of a thread is in progress
AllIdle == \A t \in Threads : threads[t].pc = "idle"

\* C20. No protection under concurrent mutation: as long as every add_order
\* and cancel_order has run to completion before the next one started, the
\* book between two calls has no undefined behaviour behind it and satisfies
\* the aggregation invariant, the cross-structure consistency and the level
\* lifecycle; once two calls have been interleaved at their read and write
\* steps this no longer holds (SerialKeepsInvariantsWitness is reachable).
SerialKeepsInvariants ==
    (AllIdle /\ ~overlapped)
        => /\ ub = FALSE
           /\ AggregationInvariant
           /\ CrossStructureConsistency
           /\ LevelLifecycle

\* two add_order calls at the same side and price were interleaved and both
\* have returned without undefined behaviour: both orders are queued at the
\* level and in the lookup, and the level's total_quantity is not the sum of
\* their quantities
SerialKeepsInvariantsWitness ==
    /\ AllIdle
    /\ overlapped
    /\ ub = FALSE
    /\ Cardinality(DOMAIN order_lookup_) = 2
    /\ Len(bids_) = 1
    /\ Len(bids_[1].second.orders) = 2
    /\ bids_[1].second.total_quantity = 1
    /\ SumQuantity(bids_[1].second.orders) = 2
    /\ ~AggregationInvariant

\* the lookup entry of an id designates a node that is linked in the queue
\* of the level at the entry's (side, price) and holds an order of that id,
\* side and price
EntryIsLive(order_id) ==
    LET location == order_lookup_[order_id]
        m == IF location.is_buy THEN bids_ ELSE asks_
        price_it == MapFind(m, location.price)
    IN  /\ price_it # 0
        /\ \E j \in 1..Len(m[price_it].second.orders) :
              LET node == m[price_it].second.orders[j]
              IN  /\ node.list_iter = location.list_iter
                  /\ node.order.order_id = order_id
                  /\ node.order.is_buy = location.is_buy
                  /\ node.order.price = location.price

\* C21. The "should not happen" branches are unreachable: in every state
\* reachable by add_order, cancel_order and amend_order calls, adds that
\* reuse a live id included, no call has used an iterator of an erased
\* node, every lookup entry designates a node that is still in the queue of
\* the level at the entry's (side, price), and so cancel_order and
\* amend_order (to either price) on any id of the lookup find the level and
\* return true.
ShouldNotHappenUnreachable ==
    /\ ub = FALSE
    /\ \A order_id \in DOMAIN order_lookup_ :
          /\ EntryIsLive(order_id)
          /\ \E r \in {cancel_order(book, order_id)} :
                r.ret /\ r.book.ub = FALSE
          /\ \A new_price \in Prices :
                \E r \in {amend_order(book, order_id, new_price, 1)} :
                    r.ret /\ r.book.ub = FALSE

\* an id was added twice while live and then cancelled: the cancel found
\* the level of the second order and returned true, the lookup has no entry
\* for the id, and the first order is still queued
ShouldNotHappenUnreachableWitness ==
    /\ call.op = "cancel_order"
    /\ call.ret
    /\ call.order_id \notin DOMAIN order_lookup_
    /\ \E n \in LiveNodes(book) : n.order.order_id = call.order_id

\* the book is crossed: the best bid is at or above the best ask
Crossed == bids_ # <<>> /\ asks_ # <<>> /\ bids_[1].first >= asks_[1].first

\* the snapshot of full depth has, for every level of the side, an entry
\* with the level's price and the sum of the quantities of its orders
ShownInFull(m, levels) ==
    \A i \in 1..Len(m) :
        \E k \in 1..Len(levels) :
            levels[k] = PriceLevel(m[i].first,
                                   SumQuantity(m[i].second.orders))

\* C22. No matching: add_order and amend_order remove and reduce no other
\* resting order, whether or not the book they leave is crossed: every node
\* of another id stays in the queue of its level with its order unchanged,
\* every other lookup entry stays, and a snapshot of full depth taken after
\* the call shows every level, on both sides, with the sum of the quantities
\* of its orders.
NoMatching ==
    [][call'.op \in {"add_order", "amend_order"} =>
          /\ \A s \in SideIndices : \A i \in 1..Len(s.m) :
                \A j \in 1..Len(s.m[i].second.orders) :
                    LET node == s.m[i].second.orders[j]
                        after == IF s.is_buy THEN bids_' ELSE asks_'
                    IN  node.order.order_id # call'.order_id =>
                          \E a \in 1..Len(after) :
                              /\ after[a].first = s.m[i].first
                              /\ \E c \in 1..Len(after[a].second.orders) :
                                    after[a].second.orders[c] = node
          /\ \A id \in (DOMAIN order_lookup_) \ {call'.order_id} :
                /\ id \in DOMAIN order_lookup_'
                /\ order_lookup_'[id] = order_lookup_[id]
          /\ \E snapshot \in {get_snapshot(book', Cardinality(Prices),
                                           <<>>, <<>>)} :
                /\ ShownInFull(bids_', snapshot.bids)
                /\ ShownInFull(asks_', snapshot.asks)]_vars

\* a price-changing amend has put a buy order at the price of the best ask:
\* the book is crossed, the buy order and the sell order both rest with
\* their non-zero quantities, and the snapshot shows both
NoMatchingWitness ==
    /\ call.op = "amend_order"
    /\ call.ret
    /\ Crossed
    /\ bids_[1].first = asks_[1].first
    /\ Len(bids_[1].second.orders) = 1
    /\ bids_[1].second.orders[1].order.order_id = call.order_id
    /\ bids_[1].second.orders[1].order.quantity = QtyMod - 1
    /\ asks_[1].second.orders[1].order.quantity = 1
    /\ \E snapshot \in {get_snapshot(book, 1, <<>>, <<>>)} :
          /\ snapshot.bids = <<PriceLevel(bids_[1].first, QtyMod - 1)>>
          /\ snapshot.asks = <<PriceLevel(asks_[1].first, 1)>>

\* the entry of a side index at a price: a sequence of one entry, empty when
\* the side has no level at the price
LevelAt(m, price) ==
    IF MapFind(m, price) = 0 THEN <<>> ELSE <<m[MapFind(m, price)]>>

\* the step leaves the book as it was
BookUnchanged == bids_' = bids_ /\ asks_' = asks_ /\ order_lookup_' = order_lookup_

\* the step changes at most the levels of one side at the given prices and
\* the lookup entry of the given id: the other side, the levels of the side
\* at every other price (key, queue, orders and total_quantity) and the
\* lookup entries of every other id are what they were
OnlyTouches(order_id, is_buy, prices) ==
    /\ IF is_buy THEN asks_' = asks_ ELSE bids_' = bids_
    /\ \A price \in Prices \ prices :
          IF is_buy
          THEN LevelAt(bids_', price) = LevelAt(bids_, price)
          ELSE LevelAt(asks_', price) = LevelAt(asks_, price)
    /\ (DOMAIN order_lookup_') \ {order_id} = (DOMAIN order_lookup_) \ {order_id}
    /\ \A id \in (DOMAIN order_lookup_) \ {order_id} :
          order_lookup_'[id] = order_lookup_[id]

\* C23. Locality of mutation: add_order(o) changes at most the level at
\* (o.is_buy, o.price) and the lookup entry of o.order_id; cancel_order(id)
\* changes at most the level at the order's (side, price) and the lookup
\* entry of id; amend_order(id, p, q) changes at most the levels at the
\* order's (side, price) and at (side, p) and the lookup entry of id; a call
\* on an id that is not live changes nothing.  Every other level of both
\* sides and every other lookup entry stay as they were, so a call on a buy
\* order leaves the ask side alone and a call on a sell order the bid side.
LocalityOfMutation ==
    [][/\ call'.op = "add_order" =>
             \A o \in Order :
                (/\ call'.order_id = o.order_id
                 /\ o.order_id \notin DOMAIN order_lookup_
                 /\ AddOrderOf(o)) =>
                    OnlyTouches(o.order_id, o.is_buy, {o.price})
       /\ call'.op = "cancel_order" =>
             \A id \in {call'.order_id} :
                IF id \in DOMAIN order_lookup_
                THEN OnlyTouches(id, order_lookup_[id].is_buy,
                                 {order_lookup_[id].price})
                ELSE BookUnchanged
       /\ call'.op = "amend_order" =>
             \A id \in {call'.order_id} :
                \A new_price \in Prices, new_quantity \in Quantities :
                   AmendOrderOf(id, new_price, new_quantity) =>
                      IF id \in DOMAIN order_lookup_
                      THEN OnlyTouches(id, order_lookup_[id].is_buy,
                                       {order_lookup_[id].price, new_price})
                      ELSE BookUnchanged]_vars

\* a buy order has been amended while a sell order of quantity 1 rests at
\* the same price: the ask level still holds that order and its total
LocalityOfMutationWitness ==
    /\ call.op = "amend_order"
    /\ call.ret
    /\ call.order_id \in DOMAIN order_lookup_
    /\ order_lookup_[call.order_id].is_buy
    /\ Len(asks_) = 1
    /\ asks_[1].first = order_lookup_[call.order_id].price
    /\ asks_[1].second.total_quantity = 1
    /\ Len(asks_[1].second.orders) = 1
    /\ asks_[1].second.orders[1].order.quantity = 1

=============================================================================
